---- MODULE Spec2Model ----
(***************************************************************************)
(* The Sia HTTP API clients: NativeClient (src/src/http/client/native.rs)  *)
(* and the older SiaApiClientImpl (src/http_client.rs).                    *)
(*                                                                         *)
(* A call is followed from the typed request to the result handed back to  *)
(* the caller.  The transport (reqwest) and the node are the environment:  *)
(* a request handed to the transport sits in `net` until the transport     *)
(* answers it, the answer sits in `inbox` until the awaiting call resumes. *)
(***************************************************************************)
EXTENDS Integers, Sequences, FiniteSets, TLC

\* ------------------------------------------------------------- bounds
\* chain heights a node reports: 0..MaxHeight
MaxHeight == 1
\* addresses a caller asks about: 0..MaxAddr
MaxAddr == 1

\* ------------------------------------------------- program constants
DefaultTimeout == 10
LegacyTimeout == 10

\* ------------------------------------------------------ Option, Result
None == [some |-> FALSE, v |-> 0]
Some(x) == [some |-> TRUE, v |-> x]

\* One JSON field of a body, or of a decoded value.  Strings are numbered.
Absent == [t |-> "absent", n |-> 0]
Num(n) == [t |-> "num", n |-> n]
Str(n) == [t |-> "str", n |-> n]

Keys == {"height", "id", "siacoins"}

NoFields == [k \in Keys |-> Absent]
NoValue == [tag |-> "none", f |-> NoFields]
NoError == [kind |-> "none", code |-> 0, cause |-> "none"]

Ok(v) == [set |-> TRUE, ok |-> TRUE, val |-> v, err |-> NoError]
Err(e) == [set |-> TRUE, ok |-> FALSE, val |-> NoValue, err |-> e]
NoResult == [set |-> FALSE, ok |-> FALSE, val |-> NoValue, err |-> NoError]

\* The error kinds the code constructs.  ReqwestError wraps the transport's
\* own error, of which `cause` keeps what went wrong.
BuildError == [kind |-> "BuildError", code |-> 0, cause |-> "header"]
ReqwestError(cause) == [kind |-> "ReqwestError", code |-> 0, cause |-> cause]
UrlParse == [kind |-> "UrlParse", code |-> 0, cause |-> "join"]
SchemaError == [kind |-> "SchemaError", code |-> 0, cause |-> "schema"]
UnexpectedHttpStatus(status) == [kind |-> "UnexpectedHttpStatus", code |-> status, cause |-> "status"]
UnexpectedEmptyResponse == [kind |-> "UnexpectedEmptyResponse", code |-> 0, cause |-> "empty"]

\* ------------------------------------------------------------ requests
\* The typed requests.  ConsensusTipRequest and AddressBalanceRequest are the
\* two the client itself dispatches; Broadcast stands for a request type whose
\* schema has a body and which declares an empty-success value.
ConsensusTipRequest == [kind |-> "ConsensusTip", arg |-> 0]
AddressBalanceRequest(address) == [kind |-> "AddressBalance", arg |-> address]
BroadcastRequest(payload) == [kind |-> "Broadcast", arg |-> payload]
NoRequest == [kind |-> "none", arg |-> 0]

Addresses == 0..MaxAddr
\* a payload below 0 is one that cannot be serialised into a schema body
Payloads == {-1, 0}

Requests ==
    {ConsensusTipRequest}
      \cup {AddressBalanceRequest(a) : a \in Addresses}
      \cup {BroadcastRequest(p) : p \in Payloads}

\* SiaApiRequest::to_endpoint_schema
to_endpoint_schema(request) ==
    CASE request.kind = "ConsensusTip" ->
           Ok([method |-> "GET", path |-> "api/consensus/tip", param |-> 0, body |-> None])
      [] request.kind = "AddressBalance" ->
           Ok([method |-> "GET", path |-> "api/addresses/{address}/balance",
               param |-> request.arg, body |-> None])
      [] OTHER ->
           IF request.arg < 0
             THEN Err(SchemaError)
             ELSE Ok([method |-> "POST", path |-> "api/txpool/broadcast", param |-> 0,
                      body |-> Some(request.arg)])

\* SiaApiRequest::is_empty_response
is_empty_response(kind) ==
    IF kind = "Broadcast" THEN Some([tag |-> "Broadcast", f |-> NoFields]) ELSE None

\* The fields R::Response requires, and of which type.
Shape(kind) ==
    CASE kind = "ConsensusTip" -> [height |-> "u64", id |-> "str", siacoins |-> "skip"]
      [] kind = "AddressBalance" -> [height |-> "skip", id |-> "skip", siacoins |-> "u64"]
      [] OTHER -> [height |-> "skip", id |-> "str", siacoins |-> "skip"]

\* ---------------------------------------------------------------- URLs
\* A base URL that cannot be a base (mailto:, data:) fails every join.
BaseUrls == {[host |-> "node", cannot_be_a_base |-> FALSE],
             [host |-> "opaque", cannot_be_a_base |-> TRUE]}

\* Url::join, mapped to UrlParse when it fails
Join(base_url, path, param) ==
    IF base_url.cannot_be_a_base
      THEN Err(UrlParse)
      ELSE Ok([base |-> base_url, path |-> path, param |-> param])

\* EndpointSchema::build_url
build_url(schema, base_url) == Join(base_url, schema.path, schema.param)

\* ------------------------------------------------- transport's answers
Statuses == {200, 204, 401, 500}

Object(h, i, s) == [syntax |-> "object", f |-> [height |-> h, id |-> i, siacoins |-> s]]
\* a body that is no JSON document, and a body whose transfer broke off
Garbage == [syntax |-> "garbage", f |-> NoFields]
Aborted == [syntax |-> "aborted", f |-> NoFields]

Bodies ==
    {Object(Num(h), Str(1), Absent) : h \in 0..MaxHeight}
      \cup {Object(Num(0), Absent, Absent),
            Object(Num(-1), Str(1), Absent),
            Object(Absent, Absent, Num(0)),
            Garbage, Aborted}

Response(status, body) == [kind |-> "response", status |-> status, body |-> body]
Failure(kind) == [kind |-> kind, status |-> 0, body |-> Garbage]
NoOutcome == [kind |-> "none", status |-> 0, body |-> Garbage]

Outcomes ==
    {Response(s, b) : s \in Statuses, b \in Bodies}
      \cup {Failure("connect"), Failure("timeout")}

\* ----------------------------------------------- Authorization header
\* Strings are sequences of bytes.
Alphabet(i) ==
    IF i < 26 THEN 65 + i
    ELSE IF i < 52 THEN 97 + (i - 26)
    ELSE IF i < 62 THEN 48 + (i - 52)
    ELSE IF i = 62 THEN 43 ELSE 47

\* BASE64.encode (the STANDARD engine: the alphabet above, padded with '=')
RECURSIVE Base64Encode(_)
Base64Encode(bytes) ==
    IF Len(bytes) = 0 THEN <<>>
    ELSE IF Len(bytes) = 1 THEN
        <<Alphabet(bytes[1] \div 4), Alphabet((bytes[1] % 4) * 16), 61, 61>>
    ELSE IF Len(bytes) = 2 THEN
        <<Alphabet(bytes[1] \div 4),
          Alphabet((bytes[1] % 4) * 16 + bytes[2] \div 16),
          Alphabet((bytes[2] % 16) * 4), 61>>
    ELSE
        <<Alphabet(bytes[1] \div 4),
          Alphabet((bytes[1] % 4) * 16 + bytes[2] \div 16),
          Alphabet((bytes[2] % 16) * 4 + bytes[3] \div 64),
          Alphabet(bytes[3] % 64)>>
          \o Base64Encode(SubSeq(bytes, 4, Len(bytes)))

\* format!("Basic {}", BASE64.encode(format!(":{}", password)))
AuthValue(password) == <<66, 97, 115, 105, 99, 32>> \o Base64Encode(<<58>> \o password)

\* HeaderValue::from_str: every byte is visible ASCII or a tab
HeaderValueFromStr(str) ==
    IF \A i \in 1..Len(str) : (str[i] >= 32 /\ str[i] < 127) \/ str[i] = 9
      THEN Ok([tag |-> "header", f |-> NoFields])
      ELSE Err(BuildError)

\* "password", a password holding a line feed and a non-ASCII byte, and none
Passwords == {<<112, 97, 115, 115, 119, 111, 114, 100>>, <<10, 195, 169>>, <<>>}

\* ClientConf::timeout
Timeouts == {None, Some(3)}

\* ------------------------------------------------------- NativeClient
\* process_schema: the schema is bound to the base URL; the transport request
\* is made of the method and the URL alone.
process_schema(base_url, schema) ==
    LET url == build_url(schema, base_url) IN
      IF ~url.ok THEN Err(url.err)
      ELSE Ok([method |-> schema.method, url |-> url.val, body |-> None])

to_data_request(base_url, request) ==
    LET schema == to_endpoint_schema(request) IN
      IF ~schema.ok THEN Err(schema.err)
      ELSE process_schema(base_url, schema.val)

\* serde's check of one field against the type the response declares
FieldDecodes(type, v) ==
    CASE type = "u64" -> v.t = "num" /\ v.n >= 0
      [] type = "str" -> v.t = "str"
      [] OTHER -> TRUE

\* json with every field of the response type defaulted when the body lacks it
\* (serde(default) on the response's fields)
jsonDefaulting(kind, body) ==
    IF body.syntax = "aborted" THEN Err(ReqwestError("body"))
    ELSE IF body.syntax = "object"
      THEN Ok([tag |-> kind,
               f |-> [k \in Keys |->
                        IF Shape(kind)[k] = "skip" THEN Absent
                        ELSE IF FieldDecodes(Shape(kind)[k], body.f[k]) THEN body.f[k]
                        ELSE IF Shape(kind)[k] = "u64" THEN Num(0) ELSE Str(0)]])
      ELSE Err(ReqwestError("decode"))

\* Response::json::<R::Response>(): the body is read to its end and parsed;
\* fields the type does not declare are ignored, a declared field that is
\* missing or of another type fails the call.
json(kind, body) ==
    IF body.syntax = "aborted" THEN Err(ReqwestError("body"))
    ELSE IF body.syntax = "object" /\ \A k \in Keys : FieldDecodes(Shape(kind)[k], body.f[k])
      THEN Ok([tag |-> kind,
               f |-> [k \in Keys |-> IF Shape(kind)[k] = "skip" THEN Absent ELSE body.f[k]]])
      ELSE Err(ReqwestError("decode"))

\* the match with the body tried before the status is looked at
StatusResolutionBodyFirst(kind, response) ==
    IF json(kind, response.body).ok THEN json(kind, response.body)
    ELSE IF response.status = 204 /\ is_empty_response(kind).some
      THEN Ok(is_empty_response(kind).v)
    ELSE IF response.status = 204 THEN Err(UnexpectedEmptyResponse)
    ELSE Err(UnexpectedHttpStatus(response.status))

\* the match with 204 taken for a success of every request type
StatusResolutionNoContentAssumed(kind, response) ==
    CASE response.status = 200 -> json(kind, response.body)
      [] response.status = 204 ->
           IF is_empty_response(kind).some
             THEN Ok(is_empty_response(kind).v)
             ELSE Ok([tag |-> kind, f |-> NoFields])
      [] OTHER -> Err(UnexpectedHttpStatus(response.status))

\* dispatcher, the match on response.status()
StatusResolution(kind, response) ==
    CASE response.status = 200 -> json(kind, response.body)
      [] response.status = 204 ->
           IF is_empty_response(kind).some
             THEN Ok(is_empty_response(kind).v)
             ELSE Err(UnexpectedEmptyResponse)
      [] OTHER -> Err(UnexpectedHttpStatus(response.status))

\* self.client.execute(request).await.map_err(ApiClientError::ReqwestError)
execute_request(outcome) ==
    IF outcome.kind = "response"
      THEN Ok([tag |-> "response", f |-> NoFields])
      ELSE Err(ReqwestError(outcome.kind))

\* dispatcher from the transport's answer on
DispatcherResult(kind, outcome) ==
    IF ~execute_request(outcome).ok
      THEN Err(execute_request(outcome).err)
      ELSE StatusResolution(kind, outcome)

\* current_height with the height defaulted when the dispatch failed
current_heightOrZero(dispatched) ==
    IF dispatched.ok
      THEN Ok([tag |-> "u64", f |-> [NoFields EXCEPT !.height = dispatched.val.f.height]])
      ELSE Ok([tag |-> "u64", f |-> [NoFields EXCEPT !.height = Num(0)]])

\* current_height: Ok(self.dispatcher(ConsensusTipRequest).await?.height)
current_height(dispatched) ==
    IF dispatched.ok
      THEN Ok([tag |-> "u64", f |-> [NoFields EXCEPT !.height = dispatched.val.f.height]])
      ELSE Err(dispatched.err)

\* address_balance: self.dispatcher(AddressBalanceRequest { address }).await
address_balance(dispatched) == dispatched

HelperResult(op, dispatched) ==
    CASE op = "current_height" -> current_height(dispatched)
      [] op = "address_balance" -> address_balance(dispatched)
      [] OTHER -> dispatched

\* new with the probe's error reported as a build error
new_resultAsBuildError(probe) ==
    IF probe.ok THEN Ok([tag |-> "NativeClient", f |-> NoFields]) ELSE Err(BuildError)

\* new, from the probe on: ret.dispatcher(ConsensusTipRequest).await?; Ok(ret)
new_result(probe) ==
    IF probe.ok THEN Ok([tag |-> "NativeClient", f |-> NoFields]) ELSE Err(probe.err)

\* --------------------------------------------------- SiaApiClientImpl
\* get_consensus_tip from the transport's answer on: send().await, mapped to
\* ReqwestError, then json::<GetConsensusTipResponse>().await, mapped to
\* ReqwestError; the status is not looked at.
get_consensus_tip(outcome) ==
    IF outcome.kind # "response"
      THEN Err(ReqwestError(outcome.kind))
      ELSE json("ConsensusTip", outcome.body)

\* get_height: let resp = self.get_consensus_tip().await?; Ok(resp.height)
get_height(tip) ==
    IF tip.ok
      THEN Ok([tag |-> "u64", f |-> [NoFields EXCEPT !.height = tip.val.f.height]])
      ELSE Err(tip.err)

\* --------------------------------------------------------------- state
VARIABLES
    conf,        \* the ClientConf given to new: url, password, timeout
    newpc,       \* where NativeClient::new stands
    client,      \* the NativeClient: transport handle (headers, timeout), base_url
    newResult,   \* what new returned
    calls,       \* per call: position, operation, request, answer taken, results
    net,         \* requests handed to the transport and not answered yet
    inbox,       \* the transport's answers not yet taken by the awaiting call
    mock,        \* the answers a deterministic transport has given, per request
    nsent,       \* per call: requests handed to the transport
    ndisp,       \* per call: dispatcher calls made
    legacy       \* the SiaApiClientImpl: position of new, its result, the client

vars == <<conf, newpc, client, newResult, calls, net, inbox, mock, nsent, ndisp, legacy>>

CallIds == {"probe", "c1", "c2", "legacy"}

NoClient == [built |-> FALSE, headers |-> <<>>, timeout |-> 0, base_url |-> [host |-> "none", cannot_be_a_base |-> TRUE]]
IdleCall == [pc |-> "idle", op |-> "none", req |-> NoRequest, got |-> NoOutcome,
             dispatched |-> NoResult, result |-> NoResult]

Confs == [url : BaseUrls, password : Passwords, timeout : Timeouts]

TypeOK ==
    /\ conf \in Confs
    /\ newpc \in {"start", "headers", "client", "probing", "returned"}
    /\ calls \in [CallIds -> [pc : {"idle", "awaiting", "done"},
                              op : {"none", "dispatcher", "current_height", "address_balance",
                                    "get_consensus_tip", "get_height"},
                              req : Requests \cup {NoRequest},
                              got : Outcomes \cup {NoOutcome},
                              dispatched : [set : BOOLEAN, ok : BOOLEAN, val : [tag : STRING, f : [Keys -> [t : STRING, n : Int]]], err : [kind : STRING, code : Int, cause : STRING]],
                              result : [set : BOOLEAN, ok : BOOLEAN, val : [tag : STRING, f : [Keys -> [t : STRING, n : Int]]], err : [kind : STRING, code : Int, cause : STRING]]]]
    /\ nsent \in [CallIds -> Nat]
    /\ ndisp \in [CallIds -> Nat]

Init ==
    /\ conf \in Confs
    /\ newpc = "start"
    /\ client = NoClient
    /\ newResult = NoResult
    /\ calls = [c \in CallIds |-> IdleCall]
    /\ net = {}
    /\ inbox = {}
    /\ mock = {}
    /\ nsent = [c \in CallIds |-> 0]
    /\ ndisp = [c \in CallIds |-> 0]
    /\ legacy = [pc |-> "start", result |-> NoResult, client |-> NoClient]

\* ------------------------------------------------- NativeClient::new
\* the Authorization header
NewBuildHeader ==
    /\ newpc = "start"
    /\ IF HeaderValueFromStr(AuthValue(conf.password)).ok
         THEN /\ newpc' = "headers"
              /\ client' = [client EXCEPT !.headers = AuthValue(conf.password)]
              /\ UNCHANGED newResult
         ELSE /\ newpc' = "returned"
              /\ newResult' = Err(HeaderValueFromStr(AuthValue(conf.password)).err)
              /\ UNCHANGED client
    /\ UNCHANGED <<conf, calls, net, inbox, mock, nsent, ndisp, legacy>>

\* ReqwestClient::builder()...build(), which the TLS backend can fail
NewBuildClient ==
    /\ newpc = "headers"
    /\ \E built \in BOOLEAN :
         IF built
           THEN /\ newpc' = "client"
                /\ client' = [client EXCEPT !.built = TRUE,
                                            !.timeout = IF conf.timeout.some THEN conf.timeout.v
                                                        ELSE DefaultTimeout,
                                            !.base_url = conf.url]
                /\ UNCHANGED newResult
           ELSE /\ newpc' = "returned"
                /\ newResult' = Err(ReqwestError("builder"))
                /\ client' = NoClient
    /\ UNCHANGED <<conf, calls, net, inbox, mock, nsent, ndisp, legacy>>

\* dispatcher up to the await: to_data_request, then the request is handed to
\* the transport; an error of to_data_request ends the call.
DispatcherCall(c, op, request) ==
    LET treq == to_data_request(client.base_url, request) IN
      /\ ndisp' = [ndisp EXCEPT ![c] = @ + 1]
      /\ IF treq.ok
           THEN /\ net' = net \cup {[call |-> c, request |-> treq.val]}
                /\ nsent' = [nsent EXCEPT ![c] = @ + 1]
                /\ calls' = [calls EXCEPT ![c] = [IdleCall EXCEPT !.pc = "awaiting", !.op = op,
                                                                    !.req = request]]
           ELSE /\ calls' = [calls EXCEPT ![c] = [IdleCall EXCEPT !.pc = "done", !.op = op,
                                                    !.req = request,
                                                    !.dispatched = Err(treq.err),
                                                    !.result = HelperResult(op, Err(treq.err))]]
                /\ UNCHANGED <<net, nsent>>
      /\ UNCHANGED <<inbox, mock>>

\* the probe: ret.dispatcher(ConsensusTipRequest)
NewProbe ==
    /\ newpc = "client"
    /\ newpc' = "probing"
    /\ DispatcherCall("probe", "dispatcher", ConsensusTipRequest)
    /\ UNCHANGED <<conf, client, newResult, legacy>>

NewReturn ==
    /\ newpc = "probing"
    /\ calls["probe"].pc = "done"
    /\ newpc' = "returned"
    /\ newResult' = new_result(calls["probe"].result)
    /\ client' = IF new_result(calls["probe"].result).ok THEN client ELSE NoClient
    /\ UNCHANGED <<conf, calls, net, inbox, mock, nsent, ndisp, legacy>>

\* ---------------------------------------------------------- the calls
Dispatch(c) ==
    /\ newResult.ok
    /\ calls[c].pc = "idle"
    /\ \E request \in Requests : DispatcherCall(c, "dispatcher", request)
    /\ UNCHANGED <<conf, newpc, client, newResult, legacy>>

CurrentHeight(c) ==
    /\ newResult.ok
    /\ calls[c].pc = "idle"
    /\ DispatcherCall(c, "current_height", ConsensusTipRequest)
    /\ UNCHANGED <<conf, newpc, client, newResult, legacy>>

AddressBalance(c) ==
    /\ newResult.ok
    /\ calls[c].pc = "idle"
    /\ \E address \in Addresses : DispatcherCall(c, "address_balance", AddressBalanceRequest(address))
    /\ UNCHANGED <<conf, newpc, client, newResult, legacy>>

\* ------------------------------------------------------- the transport
Answer(m, outcome) ==
    /\ net' = net \ {m}
    /\ inbox' = inbox \cup {[call |-> m.call, outcome |-> outcome]}

\* a node and a network that answer as they please
TransportAnswers ==
    /\ \E m \in net, outcome \in Outcomes : Answer(m, outcome)
    /\ UNCHANGED <<conf, newpc, client, newResult, calls, mock, nsent, ndisp, legacy>>

Answered(request) == \E a \in mock : a.request = request
MockAnswer(request) ==
    IF Answered(request) THEN (CHOOSE a \in mock : a.request = request).outcome ELSE NoOutcome

\* a mock transport that answers deterministically per request
MockAnswers ==
    /\ \E m \in net, outcome \in Outcomes :
         /\ Answered(m.request) => outcome = MockAnswer(m.request)
         /\ mock' = mock \cup {[request |-> m.request, outcome |-> outcome]}
         /\ Answer(m, outcome)
    /\ UNCHANGED <<conf, newpc, client, newResult, calls, nsent, ndisp, legacy>>

\* an await that takes whichever answer has arrived
AwaitedResponseAny(c) == inbox

\* the answer the await of call c yields: the one to the request c handed over
AwaitedResponse(c) == {r \in inbox : r.call = c}

\* a dispatcher that starts over when the transport fails
AfterExecuteRetrying(call, outcome) ==
    IF outcome.kind # "response"
      THEN [call EXCEPT !.pc = "idle"]
      ELSE [call EXCEPT !.pc = "done",
                        !.got = outcome,
                        !.dispatched = DispatcherResult(call.req.kind, outcome),
                        !.result = HelperResult(call.op, DispatcherResult(call.req.kind, outcome))]

\* dispatcher and the helpers from the await on
AfterExecute(call, outcome) ==
    [call EXCEPT !.pc = "done",
                 !.got = outcome,
                 !.dispatched = DispatcherResult(call.req.kind, outcome),
                 !.result = HelperResult(call.op, DispatcherResult(call.req.kind, outcome))]

Resume(c) ==
    /\ calls[c].pc = "awaiting"
    /\ \E r \in AwaitedResponse(c) :
         /\ inbox' = inbox \ {r}
         /\ calls' = [calls EXCEPT ![c] = AfterExecute(calls[c], r.outcome)]
    /\ UNCHANGED <<conf, newpc, client, newResult, net, mock, nsent, ndisp, legacy>>

\* -------------------------------------------------- SiaApiClientImpl
\* SiaApiClientImpl::new: the header, then the transport handle; no request is made
LegacyNew ==
    /\ legacy.pc = "start"
    /\ \E built \in BOOLEAN :
         legacy' =
           IF ~HeaderValueFromStr(AuthValue(conf.password)).ok
             THEN [pc |-> "returned", client |-> NoClient,
                   result |-> Err(HeaderValueFromStr(AuthValue(conf.password)).err)]
           ELSE IF ~built
             THEN [pc |-> "returned", client |-> NoClient, result |-> Err(ReqwestError("builder"))]
           ELSE [pc |-> "returned",
                 client |-> [built |-> TRUE, headers |-> AuthValue(conf.password),
                             timeout |-> LegacyTimeout, base_url |-> conf.url],
                 result |-> Ok([tag |-> "SiaApiClientImpl", f |-> NoFields])]
    /\ UNCHANGED <<conf, newpc, client, newResult, calls, net, inbox, mock, nsent, ndisp>>

\* get_consensus_tip up to the await of send(): the endpoint's URL is joined,
\* a GET of it is handed to the transport
LegacyCall(op) ==
    LET endpoint_url == Join(legacy.client.base_url, "api/consensus/tip", 0)
        failed == IF op = "get_height" THEN get_height(Err(endpoint_url.err))
                  ELSE Err(endpoint_url.err)
    IN
      /\ legacy.result.ok
      /\ calls["legacy"].pc = "idle"
      /\ IF endpoint_url.ok
           THEN /\ net' = net \cup {[call |-> "legacy",
                                     request |-> [method |-> "GET", url |-> endpoint_url.val,
                                                  body |-> None]]}
                /\ nsent' = [nsent EXCEPT !["legacy"] = @ + 1]
                /\ calls' = [calls EXCEPT !["legacy"] =
                               [IdleCall EXCEPT !.pc = "awaiting", !.op = op,
                                                !.req = ConsensusTipRequest]]
           ELSE /\ calls' = [calls EXCEPT !["legacy"] =
                               [IdleCall EXCEPT !.pc = "done", !.op = op,
                                                !.req = ConsensusTipRequest,
                                                !.dispatched = Err(endpoint_url.err),
                                                !.result = failed]]
                /\ UNCHANGED <<net, nsent>>
      /\ UNCHANGED <<conf, newpc, client, newResult, inbox, mock, ndisp, legacy>>

LegacyGetConsensusTip == LegacyCall("get_consensus_tip")

LegacyGetHeight == LegacyCall("get_height")

\* get_consensus_tip and get_height from the await on
LegacyAfterSend(call, outcome) ==
    [call EXCEPT !.pc = "done",
                 !.got = outcome,
                 !.dispatched = get_consensus_tip(outcome),
                 !.result = IF call.op = "get_height"
                              THEN get_height(get_consensus_tip(outcome))
                              ELSE get_consensus_tip(outcome)]

LegacyResume ==
    /\ calls["legacy"].pc = "awaiting"
    /\ \E r \in AwaitedResponse("legacy") :
         /\ inbox' = inbox \ {r}
         /\ calls' = [calls EXCEPT !["legacy"] = LegacyAfterSend(calls["legacy"], r.outcome)]
    /\ UNCHANGED <<conf, newpc, client, newResult, net, mock, nsent, ndisp, legacy>>

Next ==
    \/ NewBuildHeader
    \/ NewBuildClient
    \/ NewProbe
    \/ NewReturn
    \/ Dispatch("c1")
    \/ CurrentHeight("c1")
    \/ AddressBalance("c1")
    \/ TransportAnswers
    \/ Resume("probe")
    \/ Resume("c1")

Spec == Init /\ [][Next]_vars

\* Two callers share the client, against a mock transport.
NextConc ==
    \/ NewBuildHeader
    \/ NewBuildClient
    \/ NewProbe
    \/ NewReturn
    \/ Dispatch("c1")
    \/ Dispatch("c2")
    \/ MockAnswers
    \/ Resume("probe")
    \/ Resume("c1")
    \/ Resume("c2")

SpecConc == Init /\ [][NextConc]_vars

\* The older client.
NextLegacy ==
    \/ LegacyNew
    \/ LegacyGetConsensusTip
    \/ LegacyGetHeight
    \/ TransportAnswers
    \/ LegacyResume

SpecLegacy == Init /\ [][NextLegacy]_vars

\* ============================================================ claims
NativeCalls == {"probe", "c1", "c2"}
Callers == {"c1", "c2"}

Done(c) == calls[c].pc = "done"
Got(c) == calls[c].got
GotStatus(c, status) == Done(c) /\ Got(c).kind = "response" /\ Got(c).status = status

\* C1: a dispatcher call whose response has a status other than 200 and 204
\* returns UnexpectedHttpStatus carrying that status, whatever the body is.
C1_UnexpectedStatus ==
    \A c \in NativeCalls :
      (Done(c) /\ Got(c).kind = "response" /\ Got(c).status \notin {200, 204})
        => /\ ~calls[c].dispatched.ok
           /\ calls[c].dispatched.val = NoValue
           /\ calls[c].dispatched.err.kind = "UnexpectedHttpStatus"
           /\ calls[c].dispatched.err.code = Got(c).status

\* a 401 whose body would decode as the response of the request
C1_Witness ==
    /\ GotStatus("c1", 401)
    /\ calls["c1"].req.kind = "AddressBalance"
    /\ Got("c1").body = Object(Absent, Absent, Num(0))
    /\ calls["c1"].dispatched = Err(UnexpectedHttpStatus(401))

\* C2: on a 204 the dispatcher returns the empty-success value the request
\* type declares, or UnexpectedEmptyResponse when it declares none; the body
\* plays no part.
C2_NoContent ==
    \A c \in NativeCalls :
      GotStatus(c, 204)
        => IF is_empty_response(calls[c].req.kind).some
             THEN calls[c].dispatched = Ok(is_empty_response(calls[c].req.kind).v)
             ELSE calls[c].dispatched = Err(UnexpectedEmptyResponse)

\* a 204 to a request type that declares no empty success, with a body that
\* would decode
C2_Witness ==
    /\ GotStatus("c1", 204)
    /\ calls["c1"].req.kind = "AddressBalance"
    /\ Got("c1").body = Object(Absent, Absent, Num(0))
    /\ calls["c1"].dispatched = Err(UnexpectedEmptyResponse)

\* the body is a JSON object holding every field of the response type, each of
\* the declared type
BodyMatches(kind, body) ==
    /\ body.syntax = "object"
    /\ \A k \in Keys :
         /\ (Shape(kind)[k] = "u64" => (body.f[k].t = "num" /\ body.f[k].n >= 0))
         /\ (Shape(kind)[k] = "str" => body.f[k].t = "str")

\* C3: on a 200 the dispatcher returns the value decoded from the body exactly
\* when the body matches the response shape, and an error otherwise; no field
\* of an Ok value is defaulted, and the value is not the empty-success value.
C3_Decode ==
    \A c \in NativeCalls :
      GotStatus(c, 200)
        => LET kind == calls[c].req.kind
               body == Got(c).body
               r == calls[c].dispatched
           IN /\ (r.ok <=> BodyMatches(kind, body))
              /\ (r.ok => /\ r.val.tag = kind
                          /\ \A k \in Keys :
                               r.val.f[k] = IF Shape(kind)[k] = "skip" THEN Absent ELSE body.f[k])
              /\ (~r.ok => (r.val = NoValue /\ r.err.kind = "ReqwestError"))
              /\ (is_empty_response(kind).some => r # Ok(is_empty_response(kind).v))

\* the probe decoded a tip; a later 200 whose object lacks the id was refused
C3_Witness ==
    /\ GotStatus("probe", 200)
    /\ calls["probe"].dispatched.ok
    /\ GotStatus("c1", 200)
    /\ calls["c1"].req.kind = "ConsensusTip"
    /\ Got("c1").body = Object(Num(0), Absent, Absent)
    /\ calls["c1"].dispatched = Err(ReqwestError("decode"))

\* C4: a call whose deadline elapsed fails with the Timeout kind, which a
\* failed connection never yields.
C4_TimeoutKind ==
    \A c \in CallIds :
      /\ (Done(c) /\ Got(c).kind = "timeout")
           => (~calls[c].result.ok /\ calls[c].result.err.kind = "Timeout")
      /\ (Done(c) /\ Got(c).kind = "connect")
           => (~calls[c].result.ok /\ calls[c].result.err.kind # "Timeout")

\* C5: a transport request built from a schema that has a body carries it.
C5_BodyCarried ==
    \A m \in net :
      LET schema == to_endpoint_schema(calls[m.call].req) IN
        (schema.ok /\ schema.val.body.some) => m.request.body = schema.val.body

\* C6: new returns a client only with the header built and the one probe
\* succeeded; the probe starts only once the header is built; a failed probe
\* makes new return the probe's error, which is no BuildError, and no client.
C6_ProbeAfterHeader ==
    /\ (calls["probe"].pc # "idle" => newpc \in {"probing", "returned"})
    /\ (newpc = "probing" => (client.built /\ client.headers = AuthValue(conf.password)))
    /\ (newResult.ok
         => /\ client.built
            /\ client.headers = AuthValue(conf.password)
            /\ Done("probe")
            /\ calls["probe"].result.ok
            /\ nsent["probe"] = 1)
    /\ (newpc = "returned" /\ Done("probe") /\ ~calls["probe"].result.ok)
         => /\ newResult = Err(calls["probe"].result.err)
            /\ newResult.err.kind # "BuildError"
            /\ client = NoClient

\* the node turned the probe down with a 401
C6_Witness ==
    /\ newpc = "returned"
    /\ GotStatus("probe", 401)
    /\ newResult = Err(UnexpectedHttpStatus(401))

\* what a dispatcher call of this request returns when it runs alone against
\* the mock
AloneResult(request) ==
    LET treq == to_data_request(conf.url, request) IN
      IF ~treq.ok THEN Err(treq.err)
      ELSE DispatcherResult(request.kind, MockAnswer(treq.val))

\* C7: each of two concurrent dispatcher calls returns what it returns alone,
\* and the client is as new left it.
C7_NoCrossTalk ==
    /\ \A c \in Callers : Done(c) => calls[c].result = AloneResult(calls[c].req)
    /\ newResult.ok
         => /\ client.built
            /\ client.base_url = conf.url
            /\ client.headers = AuthValue(conf.password)
            /\ client.timeout = IF conf.timeout.some THEN conf.timeout.v ELSE DefaultTimeout

\* two calls of different request types, answered differently, are both back
C7_Witness ==
    /\ Done("c1") /\ Done("c2")
    /\ calls["c1"].req.kind = "AddressBalance"
    /\ calls["c2"].req.kind = "Broadcast"
    /\ calls["c1"].result.ok
    /\ GotStatus("c2", 500)
    /\ nsent["c1"] = 1 /\ nsent["c2"] = 1

InFlight(c) == \E m \in net \cup inbox : m.call = c

\* C8: a dispatcher call hands at most one request to the transport, none when
\* the schema or the URL fails, and is over with the failure as its result as
\* soon as the transport's answer is taken.
C8_NoRetry ==
    \A c \in NativeCalls :
      /\ nsent[c] <= 1
      /\ ndisp[c] <= 1
      /\ ((Done(c) /\ calls[c].dispatched.err.kind \in {"SchemaError", "UrlParse"}) => nsent[c] = 0)
      /\ ((nsent[c] >= 1 /\ ~InFlight(c)) => Done(c))
      /\ ((Done(c) /\ Got(c).kind \in {"connect", "timeout"})
           => calls[c].result = Err(ReqwestError(Got(c).kind)))

\* one call failed on its schema without a request, the other on a timeout
\* after one request
C8_Witness ==
    /\ Done("c1") /\ calls["c1"].dispatched = Err(SchemaError) /\ nsent["c1"] = 0
    /\ Done("c2") /\ Got("c2").kind = "timeout" /\ nsent["c2"] = 1

\* C9: current_height is the height of the one dispatch of ConsensusTipRequest,
\* address_balance is the one dispatch of AddressBalanceRequest, and a failed
\* dispatch is the helper's failure.
C9_Helpers ==
    \A c \in NativeCalls :
      /\ (Done(c) /\ calls[c].op = "current_height")
           => /\ ndisp[c] = 1
              /\ calls[c].req = ConsensusTipRequest
              /\ (calls[c].result.ok <=> calls[c].dispatched.ok)
              /\ (calls[c].dispatched.ok
                   => /\ calls[c].result.val.tag = "u64"
                      /\ calls[c].result.val.f.height = calls[c].dispatched.val.f.height
                      /\ calls[c].result.val.f.height = Got(c).body.f.height)
              /\ (~calls[c].dispatched.ok => calls[c].result = calls[c].dispatched)
      /\ (Done(c) /\ calls[c].op = "address_balance")
           => /\ ndisp[c] = 1
              /\ calls[c].req.kind = "AddressBalance"
              /\ calls[c].result = calls[c].dispatched
      /\ (Done(c) /\ nsent[c] = 1)
           => calls[c].dispatched = DispatcherResult(calls[c].req.kind, Got(c))

\* the node reported height MaxHeight and current_height returned it
C9_Witness ==
    /\ Done("c1")
    /\ calls["c1"].op = "current_height"
    /\ calls["c1"].result.ok
    /\ calls["c1"].result.val.f.height = Num(MaxHeight)

\* C10: get_consensus_tip of the older client, turned down by the node for its
\* password, fails with BuildError.
C10_RejectedIsBuildError ==
    (GotStatus("legacy", 401) /\ calls["legacy"].op = "get_consensus_tip")
      => (~calls["legacy"].result.ok /\ calls["legacy"].result.err.kind = "BuildError")

====
